---------------------------- MODULE Spec2Model ----------------------------
(***************************************************************************)
(* A model of the terminal multiplexer server (server.js): the RingBuffer  *)
(* scrollback store, the session registry and its naming rule, the token   *)
(* bucket, and the socket.io handlers that bind sockets to session rooms.  *)
(*                                                                         *)
(* Node runs every handler to completion on one event loop, so each        *)
(* handler (and each pty callback) is one atomic action.                   *)
(*                                                                         *)
(* Strings are sequences of characters; a Buffer is a sequence of bytes.   *)
(* JavaScript indices are 0-based, TLA+ sequences 1-based: buf[i] of the   *)
(* source is buf[i + 1] here.                                              *)
(***************************************************************************)
EXTENDS Integers, Sequences, FiniteSets, TLC

VARIABLES
    sessions,   \* the Map `sessions`, in insertion order: a sequence of sessions
    uuids,      \* how many ids uuidv4() has handed out
    pty,        \* the pty process behind each id handed out: pty[id]
    timers,     \* ids whose 500 ms startup timer is still pending
    sockets,    \* how many sockets have connected so far
    connected,  \* the sockets currently connected
    rooms,      \* socket.rooms of each socket
    bucket,     \* the token bucket of each socket's connection closure
    emitted,    \* what the server has emitted to each socket, in order
    inputs,     \* how many 'input' events have reached bucket.take()
    process,    \* the Node process: up, closing (server.close() called) or exited
    now,        \* Date.now(), in milliseconds
    ring,       \* a RingBuffer on its own (specification SpecRing)
    fed,        \* every string appended to `ring`, concatenated
    tb,         \* a token bucket on its own (specification SpecBucket)
    tbCalls     \* the take() calls made on `tb` and what each returned

vars == <<sessions, uuids, pty, timers, sockets, connected, rooms, bucket, emitted,
          inputs, process, now, ring, fed, tb, tbCalls>>

serverVars == <<sessions, uuids, pty, timers, sockets, connected, rooms, bucket,
                emitted, inputs, process>>

ringVars == <<ring, fed>>

bucketVars == <<tb, tbCalls>>

----------------------------------------------------------------------------
(* Bounds of the model.                                                    *)

\* capacity in bytes of the RingBuffers the model builds (limitBytes)
HistoryLimit == 3

\* longest string, in characters, appended to the stand-alone RingBuffer
MaxChunkLen == 4

\* most bytes ever appended to the stand-alone RingBuffer
MaxFed == 7

Min(a, b) == IF a < b THEN a ELSE b

Max(a, b) == IF a > b THEN a ELSE b

----------------------------------------------------------------------------
(* Strings and their UTF-8 bytes.  Three characters stand for all text:    *)
(* two ASCII letters and one two-byte character.  U+FFFD is what Node's    *)
(* decoder puts in place of a byte that is no valid UTF-8.                 *)

Chars == {"a", "b", "é"}

ReplacementChar == "U+FFFD"

\* an allocUnsafe()d byte that was never written
Uninitialized == "??"

\* Buffer.from(String(ch), 'utf8') of one character
Utf8OfChar(ch) ==
    CASE ch = "a" -> <<"61">>
      [] ch = "b" -> <<"62">>
      [] ch = "é" -> <<"C3", "A9">>
      [] ch = ReplacementChar -> <<"EF", "BF", "BD">>

RECURSIVE Utf8Encode(_)
\* Buffer.from(String(input), 'utf8')
Utf8Encode(s) ==
    IF s = <<>> THEN <<>>
    ELSE Utf8OfChar(Head(s)) \o Utf8Encode(Tail(s))

RECURSIVE Utf8Decode(_)
\* Buffer.prototype.toString('utf8'): a lead byte with its continuation byte
\* is one character; any byte that cannot be decoded becomes U+FFFD.
Utf8Decode(b) ==
    IF b = <<>> THEN <<>>
    ELSE IF Head(b) = "61" THEN <<"a">> \o Utf8Decode(Tail(b))
    ELSE IF Head(b) = "62" THEN <<"b">> \o Utf8Decode(Tail(b))
    ELSE IF Head(b) = "C3" /\ Len(b) >= 2 /\ b[2] = "A9"
         THEN <<"é">> \o Utf8Decode(Tail(Tail(b)))
    ELSE IF Len(b) >= 3 /\ b[1] = "EF" /\ b[2] = "BF" /\ b[3] = "BD"
         THEN <<ReplacementChar>> \o Utf8Decode(Tail(Tail(Tail(b))))
    ELSE <<ReplacementChar>> \o Utf8Decode(Tail(b))

\* b.slice(from, to) with 0-based, end-exclusive JavaScript indices
Slice(b, from, to) == SubSeq(b, from + 1, to)

\* source.copy(target, targetStart, sourceStart, sourceEnd): as many bytes
\* as fit in the target are copied
BufferCopy(source, target, targetStart, sourceStart, sourceEnd) ==
    LET n == Min(sourceEnd - sourceStart, Len(target) - targetStart)
    IN  [i \in 1..Len(target) |->
            IF i - 1 >= targetStart /\ i - 1 < targetStart + n
            THEN source[sourceStart + (i - 1 - targetStart) + 1]
            ELSE target[i]]

----------------------------------------------------------------------------
(* class RingBuffer                                                        *)

\* new RingBuffer(limitBytes)
NewRingBuffer(limitBytes) ==
    [buf   |-> [i \in 1..limitBytes |-> Uninitialized],
     limit |-> limitBytes,
     start |-> 0,
     len   |-> 0]

\* RingAppendShort with the slip of not moving start when the oldest bytes
\* have to make room
RingAppendShortKeepsStart(rb, b) ==
    LET free     == rb.limit - rb.len
        start1   == rb.start
        len1     == IF Len(b) > free THEN rb.limit ELSE rb.len + Len(b)
        writePos == (start1 + len1 - Len(b)) % rb.limit
        firstPart == Min(Len(b), rb.limit - writePos)
        buf1     == BufferCopy(b, rb.buf, writePos, 0, firstPart)
        buf2     == IF firstPart < Len(b)
                    THEN BufferCopy(b, buf1, 0, firstPart, Len(b))
                    ELSE buf1
    IN  [rb EXCEPT !.buf = buf2, !.start = start1, !.len = len1]

\* append() when the input is shorter than the buffer: the oldest bytes
\* make room, then the input is written at the logical end in one or two
\* copies.
RingAppendShort(rb, b) ==
    LET free     == rb.limit - rb.len
        start1   == IF Len(b) > free
                    THEN (rb.start + (Len(b) - free)) % rb.limit
                    ELSE rb.start
        len1     == IF Len(b) > free THEN rb.limit ELSE rb.len + Len(b)
        writePos == (start1 + len1 - Len(b)) % rb.limit
        firstPart == Min(Len(b), rb.limit - writePos)
        buf1     == BufferCopy(b, rb.buf, writePos, 0, firstPart)
        buf2     == IF firstPart < Len(b)
                    THEN BufferCopy(b, buf1, 0, firstPart, Len(b))
                    ELSE buf1
    IN  [rb EXCEPT !.buf = buf2, !.start = start1, !.len = len1]

\* RingBuffer.append(input), input a string
RingAppend(rb, input) ==
    LET b == Utf8Encode(input)
    IN  IF Len(b) >= rb.limit
        THEN [rb EXCEPT !.buf = BufferCopy(b, rb.buf, 0, Len(b) - rb.limit, Len(b)),
                        !.start = 0,
                        !.len = rb.limit]
        ELSE RingAppendShort(rb, b)

\* the bytes RingBuffer.toString() reads, before it decodes them
RingBytes(rb) ==
    IF rb.len = 0 THEN <<>>
    ELSE IF rb.start + rb.len <= rb.limit
         THEN Slice(rb.buf, rb.start, rb.start + rb.len)
         ELSE LET tailLen == (rb.start + rb.len) - rb.limit
              IN  Slice(rb.buf, rb.start, rb.limit) \o Slice(rb.buf, 0, tailLen)

\* RingBuffer.toString('utf8')
RingToString(rb) == Utf8Decode(RingBytes(rb))

----------------------------------------------------------------------------
(* Specification SpecRing: one RingBuffer fed arbitrary strings.           *)

\* every string of at most n characters
StringsUpTo(n) == UNION {[1..k -> Chars] : k \in 0..n}

InitRing ==
    /\ ring = NewRingBuffer(HistoryLimit)
    /\ fed = <<>>

\* history.append(input)
AppendToRing(input) ==
    /\ Len(Utf8Encode(fed \o input)) <= MaxFed
    /\ ring' = RingAppend(ring, input)
    /\ fed' = fed \o input

NextRing ==
    \E input \in StringsUpTo(MaxChunkLen) :
        AppendToRing(input) /\ UNCHANGED <<serverVars, now, bucketVars>>


----------------------------------------------------------------------------
(* function createBucket(capacity = 32768, refillRate = 16384)             *)
(*                                                                         *)
(* `tokens` is a JavaScript number that takes fractional values: the       *)
(* refill of delta milliseconds is (delta / 1000) * refillRate.  The model *)
(* keeps tokens * 1000, an integer, so the arithmetic is exact.            *)

Capacity == 32768

RefillRate == 16384

MsPerSecond == 1000

\* the clock is read over this many seconds
MaxSeconds == 2

\* createBucket() called when the clock reads t
CreateBucket(t) == [tokens |-> Capacity * MsPerSecond, last |-> t]

\* take(n) with the slip of leaving out Math.min(capacity, ...)
BucketTakeUncapped(b, t, n) ==
    LET delta    == t - b.last
        refilled == IF delta > 0
                    THEN [tokens |-> b.tokens + delta * RefillRate,
                          last   |-> t]
                    ELSE b
    IN  IF refilled.tokens >= n * MsPerSecond
        THEN [bucket |-> [refilled EXCEPT !.tokens = @ - n * MsPerSecond],
              ok     |-> TRUE]
        ELSE [bucket |-> refilled, ok |-> FALSE]

\* take(n) with the slip of tokens > n for tokens >= n
BucketTakeStrict(b, t, n) ==
    LET delta    == t - b.last
        refilled == IF delta > 0
                    THEN [tokens |-> Min(Capacity * MsPerSecond,
                                         b.tokens + delta * RefillRate),
                          last   |-> t]
                    ELSE b
    IN  IF refilled.tokens > n * MsPerSecond
        THEN [bucket |-> [refilled EXCEPT !.tokens = @ - n * MsPerSecond],
              ok     |-> TRUE]
        ELSE [bucket |-> refilled, ok |-> FALSE]

\* take(n) called when the clock reads t: the bucket afterwards and the
\* value returned
BucketTake(b, t, n) ==
    LET delta    == t - b.last
        refilled == IF delta > 0
                    THEN [tokens |-> Min(Capacity * MsPerSecond,
                                         b.tokens + delta * RefillRate),
                          last   |-> t]
                    ELSE b
    IN  IF refilled.tokens >= n * MsPerSecond
        THEN [bucket |-> [refilled EXCEPT !.tokens = @ - n * MsPerSecond],
              ok     |-> TRUE]
        ELSE [bucket |-> refilled, ok |-> FALSE]

\* Date.now() moves on to a later reading t
Tick(t) ==
    /\ t > now
    /\ now' = t

----------------------------------------------------------------------------
(* Specification SpecBucket: one bucket, created at time 0, and a clock.   *)

\* take() calls made on the stand-alone bucket
MaxTakes == 3

TakeSizes == {0, 1, Capacity, Capacity + 1}

\* the readings of Date.now(): each full second and the millisecond after
BucketClockReadings == {k * MsPerSecond + j : k \in 0..MaxSeconds, j \in {0, 1}}

InitBucket ==
    /\ tb = CreateBucket(0)
    /\ tbCalls = <<>>

\* bucket.take(n)
Take(n) ==
    LET r == BucketTake(tb, now, n)
    IN  /\ Len(tbCalls) < MaxTakes
        /\ tb' = r.bucket
        /\ tbCalls' = Append(tbCalls, [n |-> n, ok |-> r.ok, at |-> now])
        /\ UNCHANGED now

NextBucket ==
    \/ \E n \in TakeSizes : Take(n) /\ UNCHANGED <<serverVars, ringVars>>
    \/ \E t \in BucketClockReadings :
           Tick(t) /\ UNCHANGED <<bucketVars, serverVars, ringVars>>


----------------------------------------------------------------------------
(* The session registry.                                                   *)

\* uuidv4() is called at most this many times (SpecSessions, Spec)
MaxUuids == 2

\* uuidv4() is called at most this many times (SpecRegistry)
MaxRegistryUuids == 4

\* uuidv4() is called at most this many times (SpecInput)
MaxInputUuids == 2

\* sockets that ever connect
MaxSockets == 2

\* 'data' events the ptys emit, all together
MaxChunks == 2

\* 'input' events that reach bucket.take()
MaxInputs == 2

\* events emitted to one socket (SpecSessions, SpecRegistry, Spec)
MaxEmitted == 3

\* events emitted to one socket (SpecInput)
MaxInputEmitted == 2

\* the same two bounds where clients resize (specification SpecResize)
MaxResizeUuids == 2

MaxResizeEmitted == 2

\* ids handed out where sessions are closed (specification SpecClose)
MaxCloseUuids == 3

\* and where the process is told to stop (specification SpecShutdown)
MaxShutdownUuids == 3

MaxShutdownEmitted == 2

Sockets == 1..MaxSockets

RECURSIVE ToDigits(_)
\* the decimal digits `${n}` prints
ToDigits(n) ==
    IF n < 10 THEN <<n>> ELSE ToDigits(n \div 10) \o <<n % 10>>

RECURSIVE ParseInt(_)
\* parseInt(digits, 10)
ParseInt(digits) ==
    IF Len(digits) = 1 THEN digits[1]
    ELSE 10 * ParseInt(SubSeq(digits, 1, Len(digits) - 1)) + digits[Len(digits)]

\* `Session ${sessionNumber}`
SessionName(sessionNumber) ==
    [prefix |-> "Session ", digits |-> ToDigits(sessionNumber)]

\* name.match(/^Session (\d+)$/) and parseInt of its group: <<n>> on a
\* match, <<>> for null
MatchSessionNumber(name) ==
    IF name.prefix = "Session " /\ Len(name.digits) >= 1
    THEN <<ParseInt(name.digits)>>
    ELSE <<>>

RECURSIVE InsertSorted(_, _)
InsertSorted(sorted, n) ==
    IF sorted = <<>> THEN <<n>>
    ELSE IF n < Head(sorted) THEN <<n>> \o sorted
    ELSE <<Head(sorted)>> \o InsertSorted(Tail(sorted), n)

\* the sort left out: the numbers stay in the order of the Map
SortOmitted(numbers) == numbers

RECURSIVE SortAscending(_)
\* numbers.sort((a, b) => a - b)
SortAscending(numbers) ==
    IF numbers = <<>> THEN <<>>
    ELSE InsertSorted(SortAscending(Tail(numbers)), Head(numbers))

RECURSIVE MatchedNumbers(_)
\* .map(s => match ? parseInt(...) : null).filter(n => n !== null)
MatchedNumbers(sess) ==
    IF sess = <<>> THEN <<>>
    ELSE MatchSessionNumber(Head(sess).name) \o MatchedNumbers(Tail(sess))

RECURSIVE ScanForGap(_, _)
\* the for loop of getNextSessionNumber
ScanForGap(usedNumbers, nextNumber) ==
    IF usedNumbers = <<>> THEN nextNumber
    ELSE IF Head(usedNumbers) = nextNumber
         THEN ScanForGap(Tail(usedNumbers), nextNumber + 1)
         ELSE nextNumber

\* getNextSessionNumber with the slip of numbering by the count of sessions
GetNextSessionNumberByCount(sess) == Len(sess) + 1

\* getNextSessionNumber(), over the sessions registered now
GetNextSessionNumber(sess) ==
    ScanForGap(SortAscending(MatchedNumbers(sess)), 1)

\* the session object createSession builds
NewSession(id, sess) ==
    [id      |-> id,
     name    |-> SessionName(GetNextSessionNumber(sess)),
     history |-> NewRingBuffer(HistoryLimit)]

\* the ids registered: the keys of the Map
SessionIds(sess) == {sess[i].id : i \in 1..Len(sess)}

\* sessions.get(sessionId); used only when the id is registered
GetSession(sess, sessionId) ==
    sess[CHOOSE i \in 1..Len(sess) : sess[i].id = sessionId]

\* sessions.delete(id)
DeleteSession(sess, id) == SelectSeq(sess, LAMBDA s : s.id # id)

----------------------------------------------------------------------------
(* The pty behind a session, as far as the server sees it: whether it     *)
(* runs, what was written to it, how many 'data' events it emitted and     *)
(* all that it printed in them.                                            *)
(* node-pty emits 'exit' last, after the pty's output stream has closed.   *)

\* the geometry pty.spawn() is given
InitialCols == 80

InitialRows == 30

NoPty == [state |-> "none", written |-> <<>>, nout |-> 0, printed |-> <<>>,
          cols |-> 0, rows |-> 0, killCalled |-> FALSE]

\* pty.spawn(...) when it succeeds
SpawnedPty == [state |-> "running", written |-> <<>>, nout |-> 0, printed |-> <<>>,
               cols |-> InitialCols, rows |-> InitialRows, killCalled |-> FALSE]

\* a string given as one text repeated: unit.repeat(repeat)
Str(unit, repeat) == [unit |-> unit, repeat |-> repeat]

StartupCommand == Str("cd ~/project/src/ && bash root.sh\r", 1)

\* Buffer.byteLength(String(data), 'utf8') of a repeated character
Utf8ByteLength(data) == Len(Utf8OfChar(data.unit)) * data.repeat

\* whether pty.write() may throw: never on a running pty, possibly on one
\* that was killed, always once it has exited
MayThrow(p) == IF p.state = "running" THEN {FALSE}
               ELSE IF p.state = "killed" THEN {FALSE, TRUE}
               ELSE {TRUE}

\* pty.write(data) inside try/catch
PtyWrite(p, data, throws) ==
    IF throws THEN p ELSE [p EXCEPT !.written = Append(@, data)]

\* pty.kill(); killCalled notes that it was called without throwing
PtyKill(p) == IF p.state = "running"
              THEN [p EXCEPT !.state = "killed", !.killCalled = TRUE]
              ELSE p

\* pty.resize(cols, rows) inside try/catch
PtyResize(p, cols, rows, throws) ==
    IF throws THEN p ELSE [p EXCEPT !.cols = cols, !.rows = rows]

\* the values a client may send for cols and rows: a number, or nothing
JsNumber(n) == [type |-> "number", n |-> n]

JsUndefined == [type |-> "undefined", n |-> 0]

\* Number(v) || default: the default stands in for NaN and for 0
NumberOr(v, default) ==
    IF v.type = "number" /\ v.n # 0 THEN v.n ELSE default

DefaultCols == 80

DefaultRows == 30

MinCols == 40

MaxCols == 1000

MinRows == 10

MaxRows == 400

----------------------------------------------------------------------------
(* Events the server emits.  The `sid` and `n` fields of 'output' and      *)
(* 'history' are not part of the payload: they record which session the    *)
(* event came from and how many of its chunks had been appended.           *)

OutputEvent(sid, d, n) == [type |-> "output", sid |-> sid, data |-> d, n |-> n]

HistoryEvent(sid, h, n) == [type |-> "history", sid |-> sid, data |-> h, n |-> n]

SessionCreatedEvent(s) == [type |-> "session-created", id |-> s.id, name |-> s.name]

SessionClosedEvent(s) == [type |-> "session-closed", id |-> s.id, name |-> s.name]

\* Array.from(sessions.values()).map(s => ({ id: s.id, name: s.name }))
SessionList(sess) == [i \in 1..Len(sess) |-> [id |-> sess[i].id, name |-> sess[i].name]]

SessionsListEvent(sess) == [type |-> "sessions-list", list |-> SessionList(sess)]

\* the acknowledgement callback({ id, name }) of create-session
AckEvent(s) == [type |-> "ack", id |-> s.id, name |-> s.name]

\* the two kinds of room a socket is in
SocketRoom(c) == <<"socket", c>>

SessionRoom(id) == <<"session", id>>

\* socket.emit(event)
Emit(queue, event) == Append(queue, event)

----------------------------------------------------------------------------
(* The server.                                                             *)

\* what a pty prints in one 'data' event
OutputChunks == {<<"a">>, <<"é">>}

\* what a client types in one 'input' event
InputData == {Str("a", 1), Str("é", RefillRate), Str("a", Capacity + 1)}

\* session ids a client may send: those handed out so far, and 0, an id
\* no session ever had
RequestIds == 0..uuids

\* the readings of Date.now() while the server runs: now or a second on
ServerClockReadings == {0, MsPerSecond}

\* a socket slot nobody is connected on
NoBucket == [tokens |-> 0, last |-> 0]

\* The module body up to server.listen: createSession(true) has run once,
\* with the spawn succeeding or not, and no socket is connected.
InitServer ==
    \E spawnOk \in BOOLEAN :
        /\ uuids = 1
        /\ sessions = IF spawnOk THEN <<NewSession(1, <<>>)>> ELSE <<>>
        /\ pty = IF spawnOk THEN <<SpawnedPty>> ELSE <<NoPty>>
        /\ timers = IF spawnOk THEN {1} ELSE {}
        /\ sockets = 0
        /\ connected = {}
        /\ rooms = [c \in Sockets |-> {}]
        /\ bucket = [c \in Sockets |-> NoBucket]
        /\ emitted = [c \in Sockets |-> <<>>]
        /\ inputs = 0
        /\ process = [state |-> "up", atSignal |-> {}, threw |-> {}]

\* callbacks run as long as the process has not exited
Alive == process.state # "exited"

\* io.emit(event): to every connected socket
Broadcast(queues, event) ==
    [c \in Sockets |-> IF c \in connected THEN Emit(queues[c], event) ELSE queues[c]]

\* io.to(room).emit with the slip of io.emit: the room is not looked at
EmitToEveryone(queues, room, event) ==
    [c \in Sockets |-> IF c \in connected THEN Emit(queues[c], event) ELSE queues[c]]

\* io.to(room).emit(event): to every socket in the room
EmitToRoom(queues, room, event) ==
    [c \in Sockets |-> IF room \in rooms[c] THEN Emit(queues[c], event) ELSE queues[c]]

\* createSession with the slip of registering and announcing the session
\* before the spawn is known to have worked
OnCreateSessionBeforeSpawn(c, spawnOk, hasCallback) ==
    LET id      == uuids + 1
        session == NewSession(id, sessions)
        created == Broadcast(emitted, SessionCreatedEvent(session))
    IN  /\ c \in connected
        /\ uuids' = id
        /\ sessions' = Append(sessions, session)
        /\ pty' = Append(pty, IF spawnOk THEN SpawnedPty ELSE NoPty)
        /\ emitted' = IF spawnOk /\ hasCallback
                      THEN [created EXCEPT ![c] = Emit(@, AckEvent(session))]
                      ELSE created
        /\ UNCHANGED <<timers, sockets, connected, rooms, bucket, inputs, now, process, ringVars, bucketVars>>

\* createSession(false) called from the create-session handler of socket c,
\* followed by the handler's callback when the client passed one
OnCreateSession(c, spawnOk, hasCallback) ==
    LET id      == uuids + 1
        session == NewSession(id, sessions)
        created == Broadcast(emitted, SessionCreatedEvent(session))
    IN  /\ c \in connected
        /\ uuids' = id
        /\ IF spawnOk
           THEN /\ sessions' = Append(sessions, session)
                /\ pty' = Append(pty, SpawnedPty)
                /\ emitted' = IF hasCallback
                              THEN [created EXCEPT ![c] = Emit(@, AckEvent(session))]
                              ELSE created
           ELSE /\ pty' = Append(pty, NoPty)
                /\ UNCHANGED <<sessions, emitted>>
        /\ UNCHANGED <<timers, sockets, connected, rooms, bucket, inputs, now, process, ringVars, bucketVars>>

\* the setTimeout callback of createSession(true)
StartupTimer(id, throws) ==
    /\ Alive
    /\ id \in timers
    /\ throws \in MayThrow(pty[id])
    /\ timers' = timers \ {id}
    /\ pty' = [pty EXCEPT ![id] = PtyWrite(@, StartupCommand, throws)]
    /\ UNCHANGED <<sessions, uuids, sockets, connected, rooms, bucket, emitted, inputs, now,
                   process, ringVars, bucketVars>>

RECURSIVE SumOutputs(_)
SumOutputs(ids) ==
    IF ids = {} THEN 0
    ELSE LET id == CHOOSE x \in ids : TRUE
         IN  pty[id].nout + SumOutputs(ids \ {id})

\* the 'data' events emitted so far
ChunksEmitted == SumOutputs(DOMAIN pty)

\* the data callback with the slip of not appending to the history
OnPtyDataForgetsHistory(id, d) ==
    /\ Alive
    /\ pty[id].state \in {"running", "killed"}
    /\ pty' = [pty EXCEPT ![id].nout = @ + 1, ![id].printed = @ \o d]
    /\ emitted' = EmitToRoom(emitted, SessionRoom(id),
                             OutputEvent(id, d, pty[id].nout + 1))
    /\ UNCHANGED <<sessions, uuids, timers, sockets, connected, rooms, bucket, inputs,
                   now, process, ringVars, bucketVars>>

\* ptyProc.on('data', d => ...) of the session with this id
OnPtyData(id, d) ==
    /\ Alive
    /\ pty[id].state \in {"running", "killed"}
    /\ pty' = [pty EXCEPT ![id].nout = @ + 1, ![id].printed = @ \o d]
    /\ sessions' = [i \in 1..Len(sessions) |->
                       IF sessions[i].id = id
                       THEN [sessions[i] EXCEPT !.history = RingAppend(@, d)]
                       ELSE sessions[i]]
    /\ emitted' = EmitToRoom(emitted, SessionRoom(id),
                             OutputEvent(id, d, pty[id].nout + 1))
    /\ UNCHANGED <<uuids, timers, sockets, connected, rooms, bucket, inputs, now,
                   process, ringVars, bucketVars>>

\* the exit callback with the slip of leaving the session registered
OnPtyExitKeepsSession(id) ==
    /\ Alive
    /\ pty[id].state \in {"running", "killed"}
    /\ pty' = [pty EXCEPT ![id].state = "exited"]
    /\ emitted' = Broadcast(emitted, SessionClosedEvent(GetSession(sessions, id)))
    /\ UNCHANGED <<sessions, uuids, timers, sockets, connected, rooms, bucket, inputs,
                   now, process, ringVars, bucketVars>>

\* ptyProc.on('exit', code => ...) of the session with this id
OnPtyExit(id) ==
    /\ Alive
    /\ pty[id].state \in {"running", "killed"}
    /\ pty' = [pty EXCEPT ![id].state = "exited"]
    /\ sessions' = DeleteSession(sessions, id)
    /\ emitted' = Broadcast(emitted, SessionClosedEvent(GetSession(sessions, id)))
    /\ UNCHANGED <<uuids, timers, sockets, connected, rooms, bucket, inputs, now,
                   process, ringVars, bucketVars>>

\* the connection handler with the slip of not sending the session list
OnConnectionNoList(c) ==
    /\ process.state = "up"
    /\ c = sockets + 1
    /\ sockets' = c
    /\ connected' = connected \cup {c}
    /\ rooms' = [rooms EXCEPT ![c] = {SocketRoom(c)}]
    /\ emitted' = [emitted EXCEPT ![c] = <<>>]
    /\ bucket' = [bucket EXCEPT ![c] = CreateBucket(now)]
    /\ UNCHANGED <<sessions, uuids, pty, timers, inputs, now, process, ringVars, bucketVars>>

\* io.on('connection', socket => ...): every connection is a new socket
OnConnection(c) ==
    /\ process.state = "up"
    /\ c = sockets + 1
    /\ sockets' = c
    /\ connected' = connected \cup {c}
    /\ rooms' = [rooms EXCEPT ![c] = {SocketRoom(c)}]
    /\ emitted' = [emitted EXCEPT ![c] = Emit(<<>>, SessionsListEvent(sessions))]
    /\ bucket' = [bucket EXCEPT ![c] = CreateBucket(now)]
    /\ UNCHANGED <<sessions, uuids, pty, timers, inputs, now, process, ringVars, bucketVars>>

\* socket.on('disconnect'): socket.io has taken the socket out of its rooms
OnDisconnect(c) ==
    /\ c \in connected
    /\ connected' = connected \ {c}
    /\ rooms' = [rooms EXCEPT ![c] = {}]
    /\ emitted' = [emitted EXCEPT ![c] = <<>>]
    /\ bucket' = [bucket EXCEPT ![c] = NoBucket]
    /\ UNCHANGED <<sessions, uuids, pty, timers, sockets, inputs, now, process, ringVars, bucketVars>>

\* switch-session with the slip of not replaying the history
OnSwitchSessionNoReplay(c, sessionId) ==
    LET left == {room \in rooms[c] : room = SocketRoom(c)}
    IN  /\ c \in connected
        /\ IF sessionId \in SessionIds(sessions)
           THEN rooms' = [rooms EXCEPT ![c] = left \cup {SessionRoom(sessionId)}]
           ELSE rooms' = [rooms EXCEPT ![c] = left]
        /\ UNCHANGED <<sessions, uuids, pty, timers, sockets, connected, bucket, emitted,
                       inputs, now, process, ringVars, bucketVars>>

\* switch-session with the slip of not leaving the rooms joined before
OnSwitchSessionNoLeave(c, sessionId) ==
    /\ c \in connected
    /\ IF sessionId \in SessionIds(sessions)
       THEN LET session == GetSession(sessions, sessionId)
                h       == RingToString(session.history)
            IN  /\ rooms' = [rooms EXCEPT ![c] = @ \cup {SessionRoom(sessionId)}]
                /\ emitted' = IF Len(h) > 0
                              THEN [emitted EXCEPT ![c] =
                                       Emit(@, HistoryEvent(sessionId, h,
                                                            pty[sessionId].nout))]
                              ELSE emitted
       ELSE UNCHANGED <<rooms, emitted>>
    /\ UNCHANGED <<sessions, uuids, pty, timers, sockets, connected, bucket, inputs, now,
                   process, ringVars, bucketVars>>

\* socket.on('switch-session', sessionId => ...)
OnSwitchSession(c, sessionId) ==
    LET left == {room \in rooms[c] : room = SocketRoom(c)}
    IN  /\ c \in connected
        /\ IF sessionId \in SessionIds(sessions)
           THEN LET session == GetSession(sessions, sessionId)
                    h       == RingToString(session.history)
                IN  /\ rooms' = [rooms EXCEPT ![c] = left \cup {SessionRoom(sessionId)}]
                    /\ emitted' = IF Len(h) > 0
                                  THEN [emitted EXCEPT ![c] =
                                           Emit(@, HistoryEvent(sessionId, h,
                                                                pty[sessionId].nout))]
                                  ELSE emitted
           ELSE /\ rooms' = [rooms EXCEPT ![c] = left]
                /\ UNCHANGED emitted
        /\ UNCHANGED <<sessions, uuids, pty, timers, sockets, connected, bucket, inputs, now,
                       process, ringVars, bucketVars>>

\* close-session with the slip of dropping the session at once
OnCloseSessionDeletes(c, sessionId) ==
    /\ c \in connected
    /\ IF sessionId \in SessionIds(sessions)
       THEN /\ pty' = [pty EXCEPT ![sessionId] = PtyKill(@)]
            /\ sessions' = DeleteSession(sessions, sessionId)
       ELSE UNCHANGED <<pty, sessions>>
    /\ UNCHANGED <<uuids, timers, sockets, connected, rooms, bucket,
                   emitted, inputs, now, process, ringVars, bucketVars>>

\* socket.on('close-session', sessionId => ...)
OnCloseSession(c, sessionId) ==
    /\ c \in connected
    /\ IF sessionId \in SessionIds(sessions)
       THEN pty' = [pty EXCEPT ![sessionId] = PtyKill(@)]
       ELSE UNCHANGED pty
    /\ UNCHANGED <<sessions, uuids, timers, sockets, connected, rooms, bucket,
                   emitted, inputs, now, process, ringVars, bucketVars>>

\* the input handler with the slip of writing whatever the bucket says
OnInputUnlimited(c, sessionId, data, throws) ==
    /\ c \in connected
    /\ IF sessionId \notin SessionIds(sessions)
       THEN UNCHANGED <<bucket, pty, inputs>>
       ELSE LET taken == BucketTake(bucket[c], now, Utf8ByteLength(data))
            IN  /\ throws \in MayThrow(pty[sessionId])
                /\ inputs' = inputs + 1
                /\ bucket' = [bucket EXCEPT ![c] = taken.bucket]
                /\ pty' = [pty EXCEPT ![sessionId] = PtyWrite(@, data, throws)]
    /\ UNCHANGED <<sessions, uuids, timers, sockets, connected, rooms, emitted, now,
                   process, ringVars, bucketVars>>

\* socket.on('input', ({ sessionId, data }) => ...)
OnInput(c, sessionId, data, throws) ==
    /\ c \in connected
    /\ IF sessionId \notin SessionIds(sessions)
       THEN UNCHANGED <<bucket, pty, inputs>>
       ELSE LET taken == BucketTake(bucket[c], now, Utf8ByteLength(data))
            IN  /\ throws \in MayThrow(pty[sessionId])
                /\ inputs' = inputs + 1
                /\ bucket' = [bucket EXCEPT ![c] = taken.bucket]
                /\ IF taken.ok
                   THEN pty' = [pty EXCEPT ![sessionId] = PtyWrite(@, data, throws)]
                   ELSE UNCHANGED pty
    /\ UNCHANGED <<sessions, uuids, timers, sockets, connected, rooms, emitted, now,
                   process, ringVars, bucketVars>>

\* socket.on('resize', ({ sessionId, cols, rows }) => ...)
OnResize(c, sessionId, cols, rows, throws) ==
    LET cols1 == NumberOr(cols, DefaultCols)
        rows1 == NumberOr(rows, DefaultRows)
    IN  /\ c \in connected
        /\ IF sessionId \notin SessionIds(sessions)
           THEN UNCHANGED pty
           ELSE IF cols1 < MinCols \/ cols1 > MaxCols \/ rows1 < MinRows \/ rows1 > MaxRows
           THEN UNCHANGED pty
           ELSE /\ throws \in MayThrow(pty[sessionId])
                /\ pty' = [pty EXCEPT ![sessionId] = PtyResize(@, cols1, rows1, throws)]
        /\ UNCHANGED <<sessions, uuids, timers, sockets, connected, rooms, bucket,
                       emitted, inputs, now, process, ringVars, bucketVars>>

\* the forEach with the slip of one try around the whole loop: the first
\* kill() that throws ends it
KillEachUntilThrow(sess, ptys, throwsAt) ==
    LET thrown == {i \in 1..Len(sess) : throwsAt[sess[i].id]}
        done   == IF thrown = {} THEN Len(sess)
                  ELSE (CHOOSE i \in thrown : \A j \in thrown : i <= j) - 1
    IN  [id \in DOMAIN ptys |->
            IF \E i \in 1..done : sess[i].id = id THEN PtyKill(ptys[id]) ELSE ptys[id]]

RECURSIVE KillEach(_, _, _)
\* sessions.forEach(session => { try { session.pty.kill() } catch (e) {} }):
\* the ptys afterwards, where throwsAt says whose kill() throws
KillEach(sess, ptys, throwsAt) ==
    IF sess = <<>> THEN ptys
    ELSE LET id == Head(sess).id
         IN  KillEach(Tail(sess),
                      IF throwsAt[id] THEN ptys ELSE [ptys EXCEPT ![id] = PtyKill(@)],
                      throwsAt)

\* shutdown(), on SIGINT or SIGTERM: server.close() takes no new connection
\* and calls back once the connections it has are gone.  atSignal notes the
\* sessions registered when a signal came, threw the ones whose kill() threw.
Shutdown(throwsAt) ==
    /\ Alive
    /\ \A id \in DOMAIN pty :
           throwsAt[id] \in IF id \in SessionIds(sessions)
                           THEN MayThrow(pty[id]) ELSE {FALSE}
    /\ pty' = KillEach(sessions, pty, throwsAt)
    /\ process' = [state |-> "closing",
                   atSignal |-> process.atSignal \cup SessionIds(sessions),
                   threw |-> process.threw \cup {id \in DOMAIN pty : throwsAt[id]}]
    /\ UNCHANGED <<sessions, uuids, timers, sockets, connected, rooms, bucket,
                   emitted, inputs, now, ringVars, bucketVars>>

\* the callback of server.close(): process.exit(0)
ProcessExit ==
    /\ process.state = "closing"
    /\ connected = {}
    /\ process' = [process EXCEPT !.state = "exited"]
    /\ UNCHANGED <<sessions, uuids, pty, timers, sockets, connected, rooms, bucket,
                   emitted, inputs, now, ringVars, bucketVars>>

----------------------------------------------------------------------------
(* The client (public/client.js): its Map `sessions`, in insertion order,  *)
(* as the events delivered to it leave it.                                 *)

\* Map.has(id)
ClientHas(list, id) == \E i \in 1..Len(list) : list[i].id = id

\* Map.set(id, session): in place when the key is there, else at the end
ClientSet(list, session) ==
    IF ClientHas(list, session.id)
    THEN [i \in 1..Len(list) |-> IF list[i].id = session.id THEN session ELSE list[i]]
    ELSE Append(list, session)

\* Map.delete(id)
ClientDelete(list, id) == SelectSeq(list, LAMBDA s : s.id # id)

RECURSIVE ClientSetAll(_, _)
\* sessionList.forEach(s => sessions.set(s.id, s))
ClientSetAll(list, sessionList) ==
    IF sessionList = <<>> THEN list
    ELSE ClientSetAll(ClientSet(list, Head(sessionList)), Tail(sessionList))

\* the handlers of sessions-list, session-created and session-closed, as
\* far as they change the Map
ClientOn(list, event) ==
    IF event.type = "sessions-list" THEN ClientSetAll(<<>>, event.list)
    ELSE IF event.type = "session-created"
         THEN ClientSet(list, [id |-> event.id, name |-> event.name])
    ELSE IF event.type = "session-closed"
         THEN IF ClientHas(list, event.id) THEN ClientDelete(list, event.id) ELSE list
    ELSE list

RECURSIVE ClientAfter(_, _)
\* the Map after the events of a queue were delivered in order
ClientAfter(list, queue) ==
    IF queue = <<>> THEN list
    ELSE ClientAfter(ClientOn(list, Head(queue)), Tail(queue))

----------------------------------------------------------------------------
\* time passes between two events
ClockTick(t) ==
    /\ Tick(t)
    /\ UNCHANGED <<serverVars, ringVars, bucketVars>>

\* the model's bounds on how far a run goes: ids handed out, and events
\* emitted to one socket
Within(maxUuids, maxEmitted) ==
    /\ uuids <= maxUuids
    /\ \A c \in Sockets : Len(emitted[c]) <= maxEmitted

CreateSessionRequest ==
    \E c \in Sockets, spawnOk \in BOOLEAN, hasCallback \in BOOLEAN :
        OnCreateSession(c, spawnOk, hasCallback)

StartupTimerFires == \E id \in DOMAIN pty, throws \in BOOLEAN : StartupTimer(id, throws)

PtyData ==
    \E id \in DOMAIN pty, d \in OutputChunks :
        ChunksEmitted < MaxChunks /\ OnPtyData(id, d)

PtyExit == \E id \in DOMAIN pty : OnPtyExit(id)

Connection == \E c \in Sockets : OnConnection(c)

Disconnect == \E c \in Sockets : OnDisconnect(c)

SwitchSessionRequest ==
    \E c \in Sockets, sessionId \in RequestIds : OnSwitchSession(c, sessionId)

CloseSessionRequest ==
    \E c \in Sockets, sessionId \in RequestIds : OnCloseSession(c, sessionId)

InputEvent ==
    \E c \in Sockets, sessionId \in RequestIds, data \in InputData, throws \in BOOLEAN :
        inputs < MaxInputs /\ OnInput(c, sessionId, data, throws)

ClockReading == \E t \in ServerClockReadings : ClockTick(t)

ShutdownSignal == \E throwsAt \in [DOMAIN pty -> BOOLEAN] : Shutdown(throwsAt)

\* what clients send as cols and as rows
ColsSent == {JsUndefined} \cup {JsNumber(n) : n \in {0, 20, MinCols, 100, MaxCols + 1}}

RowsSent == {JsUndefined} \cup {JsNumber(n) : n \in {0, 9, 24, MaxRows, MaxRows + 1}}

ResizeRequest ==
    \E c \in Sockets, sessionId \in RequestIds, cols \in ColsSent, rows \in RowsSent,
       throws \in BOOLEAN :
        OnResize(c, sessionId, cols, rows, throws)

\* every event the server reacts to
Next ==
    \/ CreateSessionRequest /\ Within(MaxUuids, MaxEmitted)'
    \/ StartupTimerFires
    \/ PtyData /\ Within(MaxUuids, MaxEmitted)'
    \/ PtyExit /\ Within(MaxUuids, MaxEmitted)'
    \/ Connection
    \/ Disconnect
    \/ SwitchSessionRequest /\ Within(MaxUuids, MaxEmitted)'
    \/ CloseSessionRequest
    \/ InputEvent
    \/ ResizeRequest
    \/ ClockReading
    \/ ShutdownSignal
    \/ ProcessExit

\* sessions, rooms and output: no client types anything
NextSessions ==
    \/ CreateSessionRequest /\ Within(MaxUuids, MaxEmitted)'
    \/ PtyData /\ Within(MaxUuids, MaxEmitted)'
    \/ PtyExit /\ Within(MaxUuids, MaxEmitted)'
    \/ Connection
    \/ Disconnect
    \/ SwitchSessionRequest /\ Within(MaxUuids, MaxEmitted)'
    \/ CloseSessionRequest

\* the registry alone: sessions come and go, no pty prints anything
NextRegistry ==
    \/ CreateSessionRequest /\ Within(MaxRegistryUuids, MaxEmitted)'
    \/ PtyExit /\ Within(MaxRegistryUuids, MaxEmitted)'
    \/ Connection
    \/ Disconnect
    \/ CloseSessionRequest

\* clients typing: no pty prints anything
NextInput ==
    \/ CreateSessionRequest /\ Within(MaxInputUuids, MaxInputEmitted)'
    \/ StartupTimerFires
    \/ PtyExit /\ Within(MaxInputUuids, MaxInputEmitted)'
    \/ Connection
    \/ Disconnect
    \/ SwitchSessionRequest
    \/ CloseSessionRequest
    \/ InputEvent
    \/ ClockReading

\* clients resizing: no pty prints anything, no client types
NextResize ==
    \/ CreateSessionRequest /\ Within(MaxResizeUuids, MaxResizeEmitted)'
    \/ PtyExit /\ Within(MaxResizeUuids, MaxResizeEmitted)'
    \/ Connection
    \/ Disconnect
    \/ CloseSessionRequest
    \/ ResizeRequest

\* the process is told to stop while sessions come and go
NextShutdown ==
    \/ CreateSessionRequest /\ Within(MaxShutdownUuids, MaxShutdownEmitted)'
    \/ PtyExit /\ Within(MaxShutdownUuids, MaxShutdownEmitted)'
    \/ Connection
    \/ Disconnect
    \/ CloseSessionRequest
    \/ ShutdownSignal
    \/ ProcessExit

\* sessions are closed; every log stays short as few sessions are created
NextClose ==
    \/ CreateSessionRequest /\ uuids' <= MaxCloseUuids
    \/ PtyExit
    \/ Connection
    \/ Disconnect
    \/ CloseSessionRequest

\* the exit callback of a pty on which kill() was called
KilledPtyExits(id) ==
    /\ id \in DOMAIN pty
    /\ pty[id].state = "killed"
    /\ OnPtyExit(id)

----------------------------------------------------------------------------
(* The specifications.  Spec is the whole server.  SpecSessions,           *)
(* SpecRegistry and SpecInput are Spec with some of the events withheld,   *)
(* so each of their behaviours is a behaviour of Spec, explored further    *)
(* than Spec can be.  SpecRing and SpecBucket drive one RingBuffer and     *)
(* one token bucket with arbitrary calls.                                  *)

Init == InitServer /\ now = 0 /\ InitRing /\ InitBucket

Spec == Init /\ [][Next]_vars

SpecSessions == Init /\ [][NextSessions]_vars

SpecRegistry == Init /\ [][NextRegistry]_vars

SpecInput == Init /\ [][NextInput]_vars

SpecResize == Init /\ [][NextResize]_vars

SpecShutdown == Init /\ [][NextShutdown]_vars

\* SpecClose adds what node-pty promises: a pty that was killed exits, and
\* its 'exit' event is dispatched
SpecClose ==
    /\ Init
    /\ [][NextClose]_vars
    /\ \A id \in 1..MaxCloseUuids : WF_vars(KilledPtyExits(id))

SpecRing == Init /\ [][NextRing]_vars

SpecBucket == Init /\ [][NextBucket]_vars

----------------------------------------------------------------------------
(* What the claims are stated with.                                        *)

IsPrefix(a, b) == Len(a) <= Len(b) /\ SubSeq(b, 1, Len(a)) = a

\* the events the server emits to socket c in this step
NewEvents(c) ==
    IF c \in connected /\ c \in connected' /\ IsPrefix(emitted[c], emitted'[c])
    THEN SubSeq(emitted'[c], Len(emitted[c]) + 1, Len(emitted'[c]))
    ELSE IF c \notin connected /\ c \in connected' THEN emitted'[c]
    ELSE <<>>

\* the session rooms socket c is in: what it is subscribed to
Subscriptions(c) == {id \in DOMAIN pty : SessionRoom(id) \in rooms[c]}

\* the positions of the 'output' and 'history' events of session id in a queue
StreamOf(queue, id, type) ==
    {i \in 1..Len(queue) : queue[i].type = type /\ queue[i].sid = id}

\* the session-closed events for session id in a queue
ClosedIn(queue, id) ==
    {i \in 1..Len(queue) : queue[i].type = "session-closed" /\ queue[i].id = id}

\* this step is the exit callback of the pty with this id
Exits(id) == pty[id].state # "exited" /\ pty'[id].state = "exited"

----------------------------------------------------------------------------
(* C1.  Switching to a session whose history is not empty emits the        *)
(* history snapshot to the switching socket, and to it alone, in the step  *)
(* of the switch; in what a socket has been sent, a snapshot comes before  *)
(* every output chunk of that session appended after the snapshot was      *)
(* taken, and the output chunks of one session come in the order in which  *)
(* they were appended.                                                     *)

C1_SnapshotOnSwitch ==
    \A c \in Sockets, id \in DOMAIN pty :
        (OnSwitchSession(c, id) /\ id \in SessionIds(sessions)
            /\ GetSession(sessions, id).history.len > 0)
        => /\ NewEvents(c) =
                <<HistoryEvent(id, RingToString(GetSession(sessions, id).history),
                               pty[id].nout)>>
           /\ \A other \in Sockets \ {c} : NewEvents(other) = <<>>

C1_Ordered ==
    \A c \in connected, id \in DOMAIN pty :
        /\ \A i \in StreamOf(emitted[c], id, "history"),
              j \in StreamOf(emitted[c], id, "output") :
               emitted[c][j].n > emitted[c][i].n => i < j
        /\ \A i, j \in StreamOf(emitted[c], id, "output") :
               i < j => emitted[c][i].n < emitted[c][j].n

C1_SnapshotBeforeLiveOutput == [][C1_SnapshotOnSwitch /\ C1_Ordered']_vars

\* a socket was sent a snapshot of a session and then the chunk appended next
C1_Witness ==
    \E c \in connected, id \in DOMAIN pty :
        \E i \in StreamOf(emitted[c], id, "history"),
           j \in StreamOf(emitted[c], id, "output") :
            /\ i < j
            /\ emitted[c][i].n >= 1
            /\ emitted[c][j].n = emitted[c][i].n + 1

----------------------------------------------------------------------------
(* C2.  A close-session request changes neither the registry nor any room  *)
(* nor what is emitted; a session leaves the registry only in the step in  *)
(* which its pty's exit callback runs; until then, output of a killed pty  *)
(* is appended to the history and published, and a switch to the session   *)
(* subscribes the socket.                                                  *)

C2_CloseLeavesRegistry ==
    \A c \in Sockets, id \in RequestIds :
        OnCloseSession(c, id) =>
            sessions' = sessions /\ rooms' = rooms /\ emitted' = emitted

C2_OnlyExitRemoves ==
    \A id \in SessionIds(sessions) \ SessionIds(sessions') : Exits(id)

C2_ClosingStillServed ==
    \A id \in DOMAIN pty :
        pty[id].state = "killed" =>
            /\ id \in SessionIds(sessions)
            /\ \A d \in OutputChunks :
                   OnPtyData(id, d) =>
                       /\ id \in SessionIds(sessions')
                       /\ GetSession(sessions', id).history =
                              RingAppend(GetSession(sessions, id).history, d)
                       /\ \A c \in Sockets :
                              id \in Subscriptions(c) =>
                                  NewEvents(c) = <<OutputEvent(id, d, pty[id].nout + 1)>>
            /\ \A c \in Sockets :
                   OnSwitchSession(c, id) => id \in Subscriptions(c)'

C2_TwoPhaseRemoval ==
    [][C2_CloseLeavesRegistry /\ C2_OnlyExitRemoves /\ C2_ClosingStillServed]_vars

\* a session whose pty was killed is still registered, has a subscriber and
\* has output in its history
C2_Witness ==
    \E i \in 1..Len(sessions) :
        /\ pty[sessions[i].id].state = "killed"
        /\ sessions[i].history.len > 0
        /\ \E c \in connected : sessions[i].id \in Subscriptions(c)

----------------------------------------------------------------------------
(* C3.  Every session createSession registers is named "Session N" with N  *)
(* the smallest positive integer that no session registered at that        *)
(* moment has in its name.                                                 *)

\* the number in a session name
NumberOf(name) == CHOOSE n \in 1..(MaxRegistryUuids + MaxUuids) : SessionName(n) = name

UsedNumbers(sess) == {NumberOf(sess[i].name) : i \in 1..Len(sess)}

SmallestUnused(sess) ==
    CHOOSE n \in 1..(Len(sess) + 1) :
        n \notin UsedNumbers(sess) /\ \A m \in 1..(n - 1) : m \in UsedNumbers(sess)

C3_GapFillingName ==
    [][\A i \in 1..Len(sessions') :
           sessions'[i].id \notin SessionIds(sessions) =>
               sessions'[i].name = SessionName(SmallestUnused(sessions))]_vars

\* sessions 1, 2 and 3 were live, 2 exited, and the next one was named 2
C3_Witness ==
    /\ Len(sessions) = 3
    /\ sessions[1].name = SessionName(1)
    /\ sessions[2].name = SessionName(3)
    /\ sessions[3].name = SessionName(2)
    /\ sessions[3].id > sessions[2].id

----------------------------------------------------------------------------
(* C4.  After any appends, toString() is the UTF-8 decoding of exactly the *)
(* last min(C, total) bytes of the UTF-8 encoding of the concatenated      *)
(* input, whatever the split into chunks; a character that the capacity    *)
(* cuts in two comes out as U+FFFD.                                        *)

\* the last n bytes of b
LastBytes(b, n) == SubSeq(b, Len(b) - n + 1, Len(b))

\* the last min(C, total) bytes of everything appended
Retained == LET all == Utf8Encode(fed)
            IN  LastBytes(all, Min(ring.limit, Len(all)))

----------------------------------------------------------------------------
(* C5.  As claimed: a switch-session request for an id that is not         *)
(* registered leaves the socket's rooms as they were and emits nothing.    *)

C5_UnknownSwitchIsNoOp ==
    [][\A c \in Sockets, id \in RequestIds :
           (OnSwitchSession(c, id) /\ id \notin SessionIds(sessions))
           => rooms'[c] = rooms[c] /\ emitted' = emitted]_vars

----------------------------------------------------------------------------
(* C6.  A chunk a pty prints is emitted, once, to every socket that is in  *)
(* that session's room when the chunk arrives, and to no other socket.     *)

C6_OutputOnlyToSubscribers ==
    [][\A id \in DOMAIN pty, d \in OutputChunks :
           OnPtyData(id, d) =>
               \A c \in Sockets :
                   NewEvents(c) = IF c \in connected /\ id \in Subscriptions(c)
                                  THEN <<OutputEvent(id, d, pty[id].nout + 1)>>
                                  ELSE <<>>]_vars

\* of two connected sockets subscribed to different sessions, one was sent a
\* chunk of its session and the other was not
C6_Witness ==
    \E c1, c2 \in connected, id1, id2 \in DOMAIN pty :
        /\ c1 # c2 /\ id1 # id2
        /\ Subscriptions(c1) = {id1}
        /\ Subscriptions(c2) = {id2}
        /\ StreamOf(emitted[c1], id1, "output") # {}
        /\ StreamOf(emitted[c2], id1, "output") = {}
        /\ emitted[c2][1].type = "sessions-list"
        /\ Len(emitted[c2][1].list) = 2

----------------------------------------------------------------------------
(* C7.  No socket is ever in the rooms of two sessions.                    *)

C7_AtMostOneSubscription ==
    \A c \in Sockets : Cardinality(Subscriptions(c)) <= 1

\* a socket that was sent the history of one session is now subscribed to
\* another, and to that one only
C7_Witness ==
    \E c \in connected, id1, id2 \in DOMAIN pty :
        /\ id1 # id2
        /\ StreamOf(emitted[c], id1, "history") # {}
        /\ id1 \in SessionIds(sessions)
        /\ Subscriptions(c) = {id2}

----------------------------------------------------------------------------
(* C8.  Once the exit callback of a session's pty has run, the id is not   *)
(* registered again; the exit step emits one session-closed event for it   *)
(* to every connected socket; and from then on no output, history or       *)
(* session-closed event of that id is emitted to any socket.               *)

C8_ExitedNotRegistered ==
    \A id \in DOMAIN pty : pty[id].state = "exited" => id \notin SessionIds(sessions)

C8_OneClosedAnnounce ==
    \A id \in DOMAIN pty :
        Exits(id) =>
            \A c \in connected :
                /\ Len(NewEvents(c)) = 1
                /\ NewEvents(c)[1].type = "session-closed"
                /\ NewEvents(c)[1].id = id
                /\ NewEvents(c)[1].name = GetSession(sessions, id).name

C8_SilentAfterExit ==
    \A id \in DOMAIN pty, c \in Sockets :
        pty[id].state = "exited" =>
            /\ StreamOf(NewEvents(c), id, "output") = {}
            /\ StreamOf(NewEvents(c), id, "history") = {}
            /\ ClosedIn(NewEvents(c), id) = {}

C8_ExitIsTerminal ==
    [][C8_ExitedNotRegistered' /\ C8_OneClosedAnnounce /\ C8_SilentAfterExit]_vars

\* a socket was sent output of a session and then its session-closed event,
\* and is still in the room of the session that is gone
C8_Witness ==
    \E c \in connected, id \in DOMAIN pty :
        /\ pty[id].state = "exited"
        /\ id \in Subscriptions(c)
        /\ \E i \in StreamOf(emitted[c], id, "output"), j \in ClosedIn(emitted[c], id) :
               i < j /\ j = Len(emitted[c])

----------------------------------------------------------------------------
(* C9.  An input event for a registered session whose UTF-8 byte length    *)
(* exceeds the tokens the sender's bucket holds after its refill is        *)
(* dropped: nothing is written to any pty, nothing is emitted, no timer is *)
(* set and no token is deducted.  An admitted input is written to the pty  *)
(* of the session it names, once and verbatim, when that pty is running,   *)
(* and to no other pty.                                                    *)

\* tokens (in thousandths) that a bucket holds once the time since its last
\* refill is credited
Available(b) == Min(Capacity * MsPerSecond, b.tokens + (now - b.last) * RefillRate)

C9_RateLimitedInput ==
    [][\A c \in connected, id \in SessionIds(sessions), data \in InputData,
          throws \in BOOLEAN :
           (inputs' = inputs + 1 /\ OnInput(c, id, data, throws)) =>
               IF Utf8ByteLength(data) * MsPerSecond > Available(bucket[c])
               THEN /\ pty' = pty
                    /\ emitted' = emitted
                    /\ timers' = timers
                    /\ bucket'[c].tokens = Available(bucket[c])
               ELSE /\ \A other \in DOMAIN pty \ {id} : pty'[other] = pty[other]
                    /\ pty[id].state = "running" =>
                           pty'[id].written = Append(pty[id].written, data)
                    /\ pty'[id].written \in {pty[id].written,
                                             Append(pty[id].written, data)}
                    /\ emitted' = emitted]_vars

\* the only socket sent two inputs to the only session, whose pty runs: the
\* first took every token and was written, the second was dropped
C9_Witness ==
    /\ uuids = 1
    /\ sockets = 1
    /\ connected = {1}
    /\ 1 \in SessionIds(sessions)
    /\ pty[1].state = "running"
    /\ inputs = 2
    /\ pty[1].written = <<Str("é", RefillRate)>>
    /\ bucket[1].tokens = 0

----------------------------------------------------------------------------
(* C10.  take(n) first credits the time elapsed since the last refill, up  *)
(* to the capacity; it then returns true and deducts exactly n if at least *)
(* n tokens are held, and otherwise returns false and deducts nothing.  So *)
(* right after a take(Capacity) that succeeded, a take(1) fails when no    *)
(* time has passed and succeeds when some has.                             *)

C10_TakeStep ==
    \A n \in TakeSizes :
        Take(n) =>
            LET call == tbCalls'[Len(tbCalls')]
            IN  IF Available(tb) >= n * MsPerSecond
                THEN call.ok /\ tb'.tokens = Available(tb) - n * MsPerSecond
                ELSE ~call.ok /\ tb'.tokens = Available(tb)

C10_EmptiedThenRefilled ==
    \A i \in 1..(Len(tbCalls) - 1) :
        (tbCalls[i].n = Capacity /\ tbCalls[i].ok /\ tbCalls[i + 1].n = 1)
        => (tbCalls[i + 1].ok <=> tbCalls[i + 1].at > tbCalls[i].at)

C10_TakeContract == [][C10_TakeStep /\ C10_EmptiedThenRefilled']_vars

\* take(Capacity) succeeded, take(1) at the same instant failed, and take(1)
\* one millisecond later succeeded
C10_Witness ==
    /\ Len(tbCalls) = 3
    /\ tbCalls[1].n = Capacity /\ tbCalls[1].ok
    /\ tbCalls[2].n = 1 /\ ~tbCalls[2].ok /\ tbCalls[2].at = tbCalls[1].at
    /\ tbCalls[3].n = 1 /\ tbCalls[3].ok /\ tbCalls[3].at = tbCalls[1].at + 1

----------------------------------------------------------------------------
(* C11.  Whatever sizes take() is called with and whenever the clock is    *)
(* read, a bucket holds at least 0 and at most Capacity tokens.            *)

C11_TokensInRange ==
    /\ 0 <= tb.tokens
    /\ tb.tokens <= Capacity * MsPerSecond

\* the bucket was emptied, then left idle for longer than it takes to fill
\* it, and the next take() found it full and no fuller
C11_Witness ==
    /\ Len(tbCalls) >= 2
    /\ tbCalls[1].n = Capacity /\ tbCalls[1].ok
    /\ tbCalls[2].n = 0
    /\ (tbCalls[2].at - tbCalls[1].at) * RefillRate > Capacity * MsPerSecond
    /\ Len(tbCalls) = 2 => tb.tokens = Capacity * MsPerSecond

----------------------------------------------------------------------------
(* C12.  As claimed: a resize request for a registered session whose pty   *)
(* runs leaves the pty's geometry as it was when the cols sent are outside *)
(* [40, 1000] or the rows sent are outside [10, 400], and makes it exactly *)
(* (cols, rows) when both are inside.                                      *)

C12_ResizeWithinBoundsOrIgnored ==
    [][\A c \in connected, id \in SessionIds(sessions), cols \in ColsSent,
          rows \in RowsSent :
           (/\ cols.type = "number" /\ rows.type = "number"
            /\ pty[id].state = "running"
            /\ OnResize(c, id, cols, rows, FALSE))
           => IF \/ cols.n < MinCols \/ cols.n > MaxCols
                 \/ rows.n < MinRows \/ rows.n > MaxRows
              THEN pty'[id].cols = pty[id].cols /\ pty'[id].rows = pty[id].rows
              ELSE pty'[id].cols = cols.n /\ pty'[id].rows = rows.n]_vars

----------------------------------------------------------------------------
(* C13.  A createSession whose spawn fails registers no session, emits no  *)
(* session-created event and no acknowledgement, and leaves the number the *)
(* next session will be named with as it was; a createSession whose spawn  *)
(* works, also after failed ones, registers the session under the smallest *)
(* unused number and announces it to every connected socket.               *)

C13_FailedSpawn ==
    \A c \in Sockets, hasCallback \in BOOLEAN :
        OnCreateSession(c, FALSE, hasCallback) =>
            /\ sessions' = sessions
            /\ emitted' = emitted
            /\ SmallestUnused(sessions') = SmallestUnused(sessions)
            /\ timers' = timers /\ rooms' = rooms

C13_LaterSpawn ==
    \A c \in Sockets, hasCallback \in BOOLEAN :
        OnCreateSession(c, TRUE, hasCallback) =>
            /\ Len(sessions') = Len(sessions) + 1
            /\ SubSeq(sessions', 1, Len(sessions)) = sessions
            /\ sessions'[Len(sessions')].id = uuids + 1
            /\ sessions'[Len(sessions')].name = SessionName(SmallestUnused(sessions))
            /\ \A k \in connected :
                   /\ Len(NewEvents(k)) >= 1
                   /\ NewEvents(k)[1] = SessionCreatedEvent(sessions'[Len(sessions')])
                   /\ Len(NewEvents(k)) = IF k = c /\ hasCallback THEN 2 ELSE 1

C13_SpawnFailureLeavesState == [][C13_FailedSpawn /\ C13_LaterSpawn]_vars

\* the second createSession failed to spawn; the third worked, was named
\* "Session 2" and was announced to a connected socket
C13_Witness ==
    /\ uuids >= 3
    /\ pty[1].state = "running" /\ pty[2].state = "none"
    /\ 3 \in SessionIds(sessions)
    /\ GetSession(sessions, 3).name = SessionName(2)
    /\ \E c \in connected :
           \E i \in 1..Len(emitted[c]) :
               emitted[c][i] = SessionCreatedEvent(GetSession(sessions, 3))

----------------------------------------------------------------------------
(* C14.  As claimed: an input event that names a registered session whose  *)
(* room the sending socket is not in writes nothing to any pty and emits   *)
(* nothing.                                                                *)

C14_InputToUnsubscribedIgnored ==
    [][\A c \in connected, id \in SessionIds(sessions), data \in InputData,
          throws \in BOOLEAN :
           (/\ inputs' = inputs + 1
            /\ OnInput(c, id, data, throws)
            /\ id \notin Subscriptions(c))
           => pty' = pty /\ emitted' = emitted]_vars

----------------------------------------------------------------------------
(* C15.  The names of the sessions in the registry are pairwise distinct,  *)
(* in every state that creations, close requests and pty exits lead to.    *)

C15_DistinctNames ==
    \A i, j \in 1..Len(sessions) :
        i # j => sessions[i].name # sessions[j].name

\* a freed number was taken again: the registry holds, in insertion order,
\* "Session 2", "Session 1" and "Session 3", and the pty first named
\* "Session 1" has exited
C15_Witness ==
    /\ Len(sessions) = 3
    /\ sessions[1].name = SessionName(2)
    /\ sessions[2].name = SessionName(1)
    /\ sessions[3].name = SessionName(3)
    /\ pty[1].state = "exited"

----------------------------------------------------------------------------
(* C16.  shutdown() asks the pty of every session registered at that       *)
(* moment to terminate, also the ones that come after a session whose      *)
(* kill() throws; and the process exits only after it has asked this of    *)
(* every session that was registered when a signal came.                   *)

\* kill() has been called on the pty and has not thrown, or the pty is gone
TerminationRequested(p) == p.state \in {"killed", "exited"}

C16_ShutdownStep ==
    \A throwsAt \in [DOMAIN pty -> BOOLEAN] :
        Shutdown(throwsAt) =>
            \A id \in SessionIds(sessions) : TerminationRequested(pty'[id])

C16_KilledBeforeExit ==
    process.state = "exited" =>
        \A id \in process.atSignal : TerminationRequested(pty[id])

C16_ShutdownKillsEverySession ==
    [][C16_ShutdownStep /\ C16_KilledBeforeExit']_vars

\* the process has exited; at the signal the kill() of the first session
\* threw, and the session after it, whose kill() did not, is killed
C16_Witness ==
    /\ process.state = "exited"
    /\ Len(sessions) >= 2
    /\ {sessions[1].id, sessions[2].id} \subseteq process.atSignal
    /\ sessions[1].id \in process.threw
    /\ sessions[2].id \notin process.threw
    /\ pty[sessions[2].id].state = "killed"
    /\ sockets >= 1

----------------------------------------------------------------------------
(* C17.  Given that a killed pty fires its exit callback: a close-session  *)
(* request for a registered session calls kill() on its pty, and a         *)
(* registered session whose pty was killed is eventually out of the        *)
(* registry; the step that removes it emits session-closed with its id and *)
(* name to every connected socket; and a close-session request for an id   *)
(* that has been removed changes nothing.                                  *)

C17_CloseCallsKill ==
    \A c \in Sockets, id \in SessionIds(sessions) :
        OnCloseSession(c, id) => pty'[id].state = "killed"

C17_RemovalAnnounced ==
    \A id \in SessionIds(sessions) \ SessionIds(sessions') :
        \A c \in connected :
            NewEvents(c) = <<SessionClosedEvent(GetSession(sessions, id))>>

C17_SecondCloseIsNoOp ==
    \A c \in Sockets, id \in DOMAIN pty :
        (OnCloseSession(c, id) /\ pty[id].state = "exited") => vars' = vars

C17_KilledLeadsToRemoved ==
    \A id \in 1..MaxCloseUuids :
        (id \in SessionIds(sessions) /\ pty[id].state = "killed")
        ~> (id \in DOMAIN pty /\ pty[id].state = "exited"
            /\ id \notin SessionIds(sessions))

C17_CloseEventuallyRemoves ==
    /\ [][C17_CloseCallsKill /\ C17_RemovalAnnounced /\ C17_SecondCloseIsNoOp]_vars
    /\ C17_KilledLeadsToRemoved

\* a session that a client closed has exited and is out of the registry, and
\* a socket that was connected all along has its session-closed event, with
\* its name, as the last thing it was sent
C17_Witness ==
    \E id \in DOMAIN pty, c \in connected :
        /\ pty[id].state = "exited" /\ pty[id].killCalled
        /\ id \notin SessionIds(sessions)
        /\ Len(emitted[c]) >= 2
        /\ emitted[c][1].type = "sessions-list"
        /\ \E i \in 1..Len(emitted[c][1].list) :
               /\ emitted[c][1].list[i].id = id
               /\ emitted[c][Len(emitted[c])] =
                      [type |-> "session-closed", id |-> id,
                       name |-> emitted[c][1].list[i].name]

----------------------------------------------------------------------------
(* C18.  For a socket in the room of a registered session that has printed *)
(* no more than the history holds: the last snapshot of that session the   *)
(* socket was sent (nothing, if it was sent none), followed by the output  *)
(* chunks of that session it was sent after it, is all that the session    *)
(* has printed.                                                            *)

\* the position of the last history event of session id in a queue, or 0
LastSnapshot(queue, id) ==
    LET at == StreamOf(queue, id, "history")
    IN  IF at = {} THEN 0 ELSE CHOOSE i \in at : \A j \in at : j <= i

RECURSIVE OutputFrom(_, _, _)
\* the output chunks of session id in a queue from position i on, in order
OutputFrom(queue, id, i) ==
    IF i > Len(queue) THEN <<>>
    ELSE (IF queue[i].type = "output" /\ queue[i].sid = id
          THEN queue[i].data ELSE <<>>) \o OutputFrom(queue, id, i + 1)

\* what socket c has of session id: the last snapshot and the chunks after
Received(c, id) ==
    LET k == LastSnapshot(emitted[c], id)
    IN  (IF k = 0 THEN <<>> ELSE emitted[c][k].data)
        \o OutputFrom(emitted[c], id, k + 1)

C18_NoGapNoDuplicate ==
    \A c \in connected, id \in SessionIds(sessions) :
        (id \in Subscriptions(c)
         /\ Len(Utf8Encode(pty[id].printed)) <= HistoryLimit)
        => Received(c, id) = pty[id].printed

\* a socket switched to a session that had printed, was sent the snapshot
\* and then the chunk printed next
C18_Witness ==
    \E c \in connected, id \in SessionIds(sessions) :
        /\ id \in Subscriptions(c)
        /\ Len(Utf8Encode(pty[id].printed)) <= HistoryLimit
        /\ LastSnapshot(emitted[c], id) # 0
        /\ OutputFrom(emitted[c], id, LastSnapshot(emitted[c], id) + 1) # <<>>
        /\ pty[id].nout = 2

----------------------------------------------------------------------------
(* C19.  As claimed: every session whose room a connected socket is in is  *)
(* a session of the registry.                                              *)

C19_SubscribedToRegistered ==
    \A c \in connected : Subscriptions(c) \subseteq SessionIds(sessions)

----------------------------------------------------------------------------
(* C20.  For every connected socket, the client's list after all events    *)
(* emitted to the socket were delivered in order (the sessions-list of the *)
(* connect, then each session-created as an insertion and each            *)
(* session-closed as a removal) holds the ids and names of the registry's  *)
(* sessions, each once, in the registry's order.                           *)

C20_ListSynchronised ==
    \A c \in connected :
        ClientAfter(<<>>, emitted[c]) = SessionList(sessions)

\* a socket connected when one session was registered, then saw another
\* created and the first one closed, and its list is the registry's
C20_Witness ==
    \E c \in connected :
        /\ Len(emitted[c]) = 3
        /\ emitted[c][1].type = "sessions-list" /\ Len(emitted[c][1].list) = 1
        /\ emitted[c][2].type = "session-created"
        /\ emitted[c][3].type = "session-closed"
        /\ emitted[c][3].id = emitted[c][1].list[1].id
        /\ Len(sessions) = 1
        /\ ClientAfter(<<>>, emitted[c]) = SessionList(sessions)

=============================================================================
